---- MODULE Spec2Model ----
(***************************************************************************)
(* ogenki-daemon-rs: a serial line reader that decodes TWELITE "status     *)
(* notify" frames (twelite-serial/src/status_notify.rs), validates them    *)
(* and hands accepted frames to a delivery sink                            *)
(* (ogenki-daemon-rs/src/main.rs, sender.rs).                              *)
(*                                                                         *)
(* Bytes are the integers 0..255.  A line is a sequence of bytes (the      *)
(* UTF-8 bytes of the text line, as decode_str passes them to decode).     *)
(* Rust index i (0-based) is TLA+ index i+1.                               *)
(***************************************************************************)
EXTENDS Integers, Sequences, FiniteSets, TLC

VARIABLES
    \* ---- decoder / validator test driver (status_notify.rs, fn test) ----
    input,      \* the byte string handed to StatusNotify::decode
    decoded,    \* the Result of decode, or NotYet
    verdict,    \* the Result of validate on the decoded frame, or NotYet
    step,       \* "input" -> "decoded" -> "validated"
    volts,      \* <<ad1, ad2, ad3, ad4>>_voltage_millis of the frame, or <<>>
    \* ---- the daemon (main.rs) ----
    backend,    \* cli::Backend: which of url / username / password are Some
    sender,     \* the Sender variant built by Sender::new: "Web" or "Nothing"
    backendUp,  \* environment: would the HTTP endpoint answer 2xx
    pc,         \* position of main: awaiting_line, decoding, validating,
                \* dispatching, returned, exited
    line,       \* the line bound by `let Ok(line) = line`
    status,     \* the StatusNotify bound by `let status = ...`
    reads,      \* history of what serial.lines() yielded so far
    tasks,      \* the futures handed to tokio::spawn, in spawn order
    stderr,     \* what the loop wrote with eprintln!, in order
    \* ---- the sink (sender.rs) ----
    webBackend, \* the Backend clone held by Sender::Web, or NoWebBackend
    sends,      \* the Sender::send calls so far, in call order: the frame,
                \* the Result (Pending while the call is suspended at
                \* `.send().await`) and the number of requests it issued
    outbound    \* the HTTP requests issued so far, in order

decodeVars == <<input, decoded, verdict, step, volts>>
daemonVars == <<backend, sender, backendUp, pc, line, status, reads, tasks, stderr>>
sendVars == <<webBackend, sends, outbound>>
vars == <<input, decoded, verdict, step, volts,
          backend, sender, backendUp, pc, line, status, reads, tasks, stderr,
          webBackend, sends, outbound>>

(***************************************************************************)
(* Bounds of the model.                                                    *)
(***************************************************************************)
\* longest input handed to decode by the length family of test inputs
MaxLen == 52
\* number of items serial.lines() yields that the history records
MaxReads == 3
\* number of Sender::send calls the history records
MaxSends == 3

(***************************************************************************)
(* u8 arithmetic                                                           *)
(***************************************************************************)
\* bit k of a u8
Bit(x, k) == (x \div (2 ^ k)) % 2

\* `*out |= x` on u8: bit k of the result is set iff it is set in a or in b
U8Or(a, b) ==
    LET or[x \in 0..255, y \in 0..255] ==
            LET bit(k) == IF Bit(x, k) = 1 \/ Bit(y, k) = 1 THEN 2 ^ k ELSE 0
            IN bit(0) + bit(1) + bit(2) + bit(3) + bit(4) + bit(5) + bit(6) + bit(7)
    IN or[a, b]

U8ShlNoShift(x, k) == x % 256
\* `x << k` on u8 (bits shifted out are lost)
U8Shl(x, k) == (x * (2 ^ k)) % 256

\* `x >> k` on u8
U8Shr(x, k) == x \div (2 ^ k)

\* `a & b` on u8: bit k of the result is set iff it is set in a and in b
U8And(a, b) ==
    LET and[x \in 0..255, y \in 0..255] ==
            LET bit(k) == IF Bit(x, k) = 1 /\ Bit(y, k) = 1 THEN 2 ^ k ELSE 0
            IN bit(0) + bit(1) + bit(2) + bit(3) + bit(4) + bit(5) + bit(6) + bit(7)
    IN and[a, b]

\* u16 arithmetic of a release build (a debug build panics where these wrap)
U16Mul(a, b) == (a * b) % 65536
U16Add(a, b) == (a + b) % 65536

\* u8::wrapping_add
wrapping_add(s, v) == (s + v) % 256

(***************************************************************************)
(* Result values                                                           *)
(***************************************************************************)
NoBuf == <<>>
Ok(v) == [tag |-> "Ok", val |-> v, buf |-> NoBuf]
OkFrame(b) == [tag |-> "Ok", val |-> 0, buf |-> b]
Err(t, v) == [tag |-> t, val |-> v, buf |-> NoBuf]
NotYet == [tag |-> "NotYet", val |-> 0, buf |-> NoBuf]
IsOk(r) == r.tag = "Ok"

(***************************************************************************)
(* StatusNotify::decode                                                    *)
(***************************************************************************)
\* the literal whose .len() decode compares with
RefLine == <<58, 55, 56, 56, 49, 49, 53, 48, 49, 55, 53, 56, 49, 48, 48, 48,
             48, 51, 56, 48, 48, 50, 54, 67, 57, 48, 48, 48, 67, 48, 52, 50,
             50, 48, 48, 48, 48, 70, 70, 70, 70, 70, 70, 70, 70, 70, 70, 65,
             55>>

ExpectedLen == Len(RefLine)

\* [u8; 24]
FrameLen == 24

char2binLower(c) ==
    IF c \in 48..57 THEN Ok(c - 48)
    ELSE IF c \in 65..70 THEN Ok(c - 65 + 10)
    ELSE IF c \in 97..102 THEN Ok(c - 97 + 10)
    ELSE Err("InvalidCharacter", c)
char2bin(c) ==
    IF c \in 48..57 THEN Ok(c - 48)
    ELSE IF c \in 65..70 THEN Ok(c - 65 + 10)
    ELSE Err("InvalidCharacter", c)

\* the `for (n, out) in out.buf.iter_mut().enumerate()` loop; rest is
\* &buf[1..], n the 0-based index, out the elements 0..n-1 as written so
\* far.  Element n starts as 0 (Default::default()), gets the high nibble
\* or-ed in, then the low nibble; the first character char2bin refuses ends
\* the loop with its error (`?`).
DecodeLoop(rest) ==
    LET loop[n \in 0..FrameLen, out \in Seq(0..255)] ==
            IF n = FrameLen THEN OkFrame(out)
            ELSE LET hi == char2bin(rest[n * 2 + 1])
                 IN IF ~IsOk(hi) THEN hi
                    ELSE LET lo == char2bin(rest[n * 2 + 1 + 1])
                         IN IF ~IsOk(lo) THEN lo
                            ELSE loop[n + 1,
                                      Append(out, U8Or(U8Or(0, U8Shl(hi.val, 4)),
                                                       lo.val))]
    IN loop[0, <<>>]

decodeSentinelFirst(buf) ==
    IF Len(buf) > 0 /\ buf[1] # 58 THEN Err("InvalidCharacter", buf[1])
    ELSE IF Len(buf) # ExpectedLen THEN Err("InvalidLength", Len(buf))
    ELSE DecodeLoop(Tail(buf))
decode(buf) ==
    LET len == Len(buf)
    IN IF len # ExpectedLen THEN Err("InvalidLength", len)
       ELSE IF buf[1] # 58 THEN Err("InvalidCharacter", buf[1])
       ELSE DecodeLoop(Tail(buf))

\* buf.as_bytes() is the identity on the byte sequences of this model
decode_str(buf) == decode(buf)

(***************************************************************************)
(* Field accessors                                                         *)
(***************************************************************************)
command(buf) == buf[1 + 1]
protocol_version(buf) == buf[3 + 1]
lqi(buf) == buf[4 + 1]
relay_count(buf) == buf[12 + 1]
di_status(buf) == buf[16 + 1]
di_changed(buf) == buf[17 + 1]
checksum(buf) == buf[23 + 1]

\* u16::from_be_bytes([buf[13], buf[14]])
power_voltage_millis(buf) == buf[13 + 1] * 256 + buf[14 + 1]

di1_status(buf) == U8And(di_status(buf), U8Shl(1, 0)) # 0
di1_changed(buf) == U8And(di_changed(buf), U8Shl(1, 0)) # 0

ad4_value(buf) == buf[18 + 1]
ad3_value(buf) == buf[19 + 1]
ad2_value(buf) == buf[20 + 1]
ad1_value(buf) == buf[21 + 1]
ad_fix(buf) == buf[22 + 1]

ad1_fix(buf) == U8And(U8Shr(ad_fix(buf), 2 * 0), 3)
ad2_fixNoShift(buf) == U8And(ad_fix(buf), 3)
ad2_fix(buf) == U8And(U8Shr(ad_fix(buf), 2 * 1), 3)
ad3_fix(buf) == U8And(U8Shr(ad_fix(buf), 2 * 2), 3)
ad4_fix(buf) == U8And(U8Shr(ad_fix(buf), 2 * 3), 3)

\* `(value * 4 + fix) * 4` with value and fix widened to u16
ad1_voltage_millis(buf) ==
    U16Mul(U16Add(U16Mul(ad1_value(buf), 4), ad1_fix(buf)), 4)
ad2_voltage_millis(buf) ==
    U16Mul(U16Add(U16Mul(ad2_value(buf), 4), ad2_fix(buf)), 4)
ad3_voltage_millis(buf) ==
    U16Mul(U16Add(U16Mul(ad3_value(buf), 4), ad3_fix(buf)), 4)
ad4_voltage_millis(buf) ==
    U16Mul(U16Add(U16Mul(ad4_value(buf), 4), ad4_fix(buf)), 4)

(***************************************************************************)
(* Validator                                                               *)
(***************************************************************************)
\* self.buf.iter().fold(0u8, |s, v| s.wrapping_add(*v))
FoldWrappingAdd(buf) ==
    LET fold[i \in 1..(Len(buf) + 1), s \in 0..255] ==
            IF i > Len(buf) THEN s
            ELSE fold[i + 1, wrapping_add(s, buf[i])]
    IN fold[1, 0]

validate_checksumSkipsLast(buf) ==
    LET sum == FoldWrappingAdd(SubSeq(buf, 1, Len(buf) - 1))
    IN IF sum = 0 THEN Ok(0) ELSE Err("Err", sum)
validate_checksum(buf) ==
    LET sum == FoldWrappingAdd(buf)
    IN IF sum = 0 THEN Ok(0) ELSE Err("Err", sum)

validate_protocol_version(buf) ==
    LET version == protocol_version(buf)
    IN IF version = 1 THEN Ok(0) ELSE Err("Err", version)

validate_commandExpects80(buf) ==
    LET cmd == command(buf)
    IN IF cmd = 128 THEN Ok(0) ELSE Err("Err", cmd)
validate_command(buf) ==
    LET cmd == command(buf)
    IN IF cmd = 129 THEN Ok(0) ELSE Err("Err", cmd)

validate_relay_count(buf) ==
    LET count == relay_count(buf)
    IN IF count <= 3 THEN Ok(0) ELSE Err("Err", count)

validateCommandFirst(buf) ==
    IF ~IsOk(validate_checksum(buf))
    THEN Err("InvalidChecksum", validate_checksum(buf).val)
    ELSE IF ~IsOk(validate_command(buf))
    THEN Err("InvalidCommand", validate_command(buf).val)
    ELSE IF ~IsOk(validate_protocol_version(buf))
    THEN Err("InvalidProtocolVersion", validate_protocol_version(buf).val)
    ELSE IF ~IsOk(validate_relay_count(buf))
    THEN Err("InvalidRelayCount", validate_relay_count(buf).val)
    ELSE Ok(0)
validate(buf) ==
    IF ~IsOk(validate_checksum(buf))
    THEN Err("InvalidChecksum", validate_checksum(buf).val)
    ELSE IF ~IsOk(validate_protocol_version(buf))
    THEN Err("InvalidProtocolVersion", validate_protocol_version(buf).val)
    ELSE IF ~IsOk(validate_command(buf))
    THEN Err("InvalidCommand", validate_command(buf).val)
    ELSE IF ~IsOk(validate_relay_count(buf))
    THEN Err("InvalidRelayCount", validate_relay_count(buf).val)
    ELSE Ok(0)

(***************************************************************************)
(* Inputs of the decoder / validator driver.  These enumerate byte strings *)
(* and frames; they model no code.                                         *)
(***************************************************************************)
\* the frame RefLine encodes
RefFrame == <<120, 129, 21, 1, 117, 129, 0, 0, 56, 0, 38, 201, 0, 12, 4, 34,
              0, 0, 255, 255, 255, 255, 255, 167>>

HexDigit(n) == IF n < 10 THEN 48 + n ELSE 65 + (n - 10)

\* ':' followed by the uppercase hexadecimal text of the frame
Encode(f) ==
    <<58>> \o [i \in 1..(2 * Len(f)) |->
                 IF i % 2 = 1 THEN HexDigit(f[(i + 1) \div 2] \div 16)
                 ELSE HexDigit(f[i \div 2] % 16)]

RECURSIVE SeqSum(_)
SeqSum(s) == IF s = <<>> THEN 0 ELSE Head(s) + SeqSum(Tail(s))

\* the frame with its last byte set so that all bytes sum to 0 mod 256
FixChecksum(f) ==
    [f EXCEPT ![Len(f)] = (256 - (SeqSum(SubSeq(f, 1, Len(f) - 1)) % 256)) % 256]

TestBytes == {0, 32, 47, 48, 57, 58, 64, 65, 70, 71, 96, 97, 102, 103, 255}
BadBytes == {32, 71, 97}
FillBytes == {0, 48, 58, 122}

\* every length 0..MaxLen: RefLine cut or padded, and constant strings
LengthInputs ==
    UNION {{[i \in 1..n |-> IF i <= Len(RefLine) THEN RefLine[i] ELSE c],
            [i \in 1..n |-> c]} : n \in 0..MaxLen, c \in FillBytes}

\* RefLine, and RefLine with one more digit, with one byte replaced
BaseLines == {RefLine, RefLine \o <<48>>}
OneByteInputs ==
    {[b EXCEPT ![p] = c] : <<b, p, c>> \in
        {t \in BaseLines \X (1..(Len(RefLine) + 1)) \X TestBytes : t[2] <= Len(t[1])}}

\* RefLine with two bytes replaced by two different non-digits
TwoByteInputs ==
    {[RefLine EXCEPT ![t[1]] = t[3], ![t[2]] = t[4]] : t \in
        {u \in (1..Len(RefLine)) \X (1..Len(RefLine)) \X BadBytes \X BadBytes :
            u[1] < u[2] /\ u[3] # u[4]}}

\* RefFrame with one byte replaced by every value
OneByteFrames ==
    {[RefFrame EXCEPT ![i] = v] : i \in 1..FrameLen, v \in 0..255}

\* RefFrame with command, version, relay count and checksum varied together
ComboFrames ==
    UNION {LET f == [RefFrame EXCEPT ![2] = t[1], ![4] = t[2], ![13] = t[3]]
           IN {FixChecksum(f), [f EXCEPT ![FrameLen] = 255], f} :
           t \in {129, 128, 0} \X {1, 0, 2} \X {0, 3, 4, 255}}

\* RefFrame with the four analog values and the correction byte varied
\* together
AnalogFrames ==
    {[RefFrame EXCEPT ![19] = t[1], ![20] = t[2], ![21] = t[3], ![22] = t[4],
                      ![23] = t[5]] :
        t \in {0, 7, 255} \X {0, 7, 255} \X {0, 7, 255} \X {0, 7, 255}
              \X {0, 27, 85, 170, 228, 255}}

DecodeInputs ==
    LengthInputs \cup OneByteInputs \cup TwoByteInputs
    \cup {Encode(f) : f \in OneByteFrames \cup ComboFrames \cup AnalogFrames}

(***************************************************************************)
(* The decoder / validator driver: decode an input, then validate the      *)
(* frame if there is one (as fn test does for each of its literals).       *)
(***************************************************************************)
\* what the Sender variant holds: Sender::Nothing holds nothing
NoWebBackend == [none |-> TRUE]

SendIdle ==
    /\ webBackend = NoWebBackend
    /\ sends = <<>>
    /\ outbound = <<>>

DaemonIdle ==
    /\ backend = [url |-> FALSE, username |-> FALSE, password |-> FALSE]
    /\ sender = "Nothing"
    /\ backendUp = FALSE
    /\ pc = "idle"
    /\ line = <<>>
    /\ status = NoBuf
    /\ reads = <<>>
    /\ tasks = <<>>
    /\ stderr = <<>>

DecodeInit ==
    /\ input \in DecodeInputs
    /\ decoded = NotYet
    /\ verdict = NotYet
    /\ step = "input"
    /\ volts = <<>>
    /\ DaemonIdle
    /\ SendIdle

CallDecode ==
    /\ step = "input"
    /\ decoded' = decode_str(input)
    /\ step' = "decoded"
    /\ UNCHANGED <<input, verdict, volts>>
    /\ UNCHANGED daemonVars
    /\ UNCHANGED sendVars

CallValidate ==
    /\ step = "decoded"
    /\ IsOk(decoded)
    /\ verdict' = validate(decoded.buf)
    /\ step' = "validated"
    /\ UNCHANGED <<input, decoded, volts>>
    /\ UNCHANGED daemonVars
    /\ UNCHANGED sendVars

\* the four adN_voltage_millis accessors read on a decoded frame
ReadAnalog ==
    /\ step \in {"decoded", "validated"}
    /\ IsOk(decoded)
    /\ volts = <<>>
    /\ volts' = <<ad1_voltage_millis(decoded.buf), ad2_voltage_millis(decoded.buf),
                  ad3_voltage_millis(decoded.buf), ad4_voltage_millis(decoded.buf)>>
    /\ UNCHANGED <<input, decoded, verdict, step>>
    /\ UNCHANGED daemonVars
    /\ UNCHANGED sendVars

DecodeNext == CallDecode \/ CallValidate \/ ReadAnalog

DecodeSpec == DecodeInit /\ [][DecodeNext]_vars

(***************************************************************************)
(* The daemon: main.rs and sender.rs                                       *)
(*                                                                         *)
(* main runs as the future given to block_on of a current_thread tokio     *)
(* runtime (main.rs:15).  That scheduler polls the block_on future first   *)
(* and takes spawned tasks from its run queue only after that future has   *)
(* returned Pending.  The body of main holds no .await: serial.lines() is  *)
(* a blocking std::io read, so the future never returns Pending and runs   *)
(* until the loop ends.  A task handed to tokio::spawn (main.rs:52) is put *)
(* on the run queue and stays there, unpolled; when main returns, block_on *)
(* returns, the runtime is dropped and the queued tasks are dropped with   *)
(* it.  The model therefore has no step that polls a task: sender.send is  *)
(* never entered, and no POST is issued.                                   *)
(***************************************************************************)
Backends == [url : BOOLEAN, username : BOOLEAN, password : BOOLEAN]

SenderNewOnUsername(b) == IF ~b.username THEN "Nothing" ELSE "Web"
\* Sender::new: the variant it returns
SenderNew(b) == IF ~b.url THEN "Nothing" ELSE "Web"

\* WebBackend::new_from_backend: `backend.clone()`
new_from_backend(b) ==
    [url |-> b.url, username |-> b.username, password |-> b.password]

\* Sender::new: the WebBackend inside the variant it returns
SenderNewBackend(b) ==
    IF SenderNew(b) = "Web" THEN new_from_backend(b) ELSE NoWebBackend

\* what the endpoint does with a request: answers 2xx, answers an error
\* status, or cannot be reached
Responses(up) == IF up THEN {"2xx"} ELSE {"4xx", "unreachable"}

\* where one poll leaves a send: its Result (or the panic that ended it, or
\* Pending) and the requests it issued
Sent(result, requests) == [result |-> result, requests |-> requests]
Panicked(what) == Err(what, 0)
\* the future is suspended at `.send().await`, its request in flight
Pending == [tag |-> "Pending", val |-> 0, buf |-> NoBuf]

\* WebBackend::send, from its start to the suspension at `.send().await`
WebBackendSend(wb, notify) ==
    IF ~wb.url
    THEN \* `self.backend.url.as_ref().unwrap()` on None
         Sent(Panicked("UrlUnwrapNone"), <<>>)
    ELSE IF wb.username /\ ~wb.username
    THEN \* the arm `Some(_)` of `match self.backend.username`, then
         \* `self.backend.username.as_ref().unwrap()` on None
         Sent(Panicked("UsernameUnwrapNone"), <<>>)
    ELSE LET auth == IF wb.username
                     THEN [basic |-> TRUE, password |-> wb.password]
                     ELSE [basic |-> FALSE, password |-> FALSE]
             form == [wireless |-> lqi(notify),
                      battery |-> power_voltage_millis(notify),
                      doorsensor |-> di_status(notify),
                      status |-> di1_status(notify),
                      changed |-> di1_changed(notify)]
             request == [auth |-> auth, form |-> form]
         IN Sent(Pending, <<request>>)

\* WebBackend::send, resumed with the outcome of the request:
\* `.await?.error_for_status()?; Ok(())`
WebBackendSendResumed(resp) ==
    CASE resp = "2xx" -> Ok(0)
      [] resp = "4xx" -> Err("StatusError", 404)
      [] resp = "unreachable" -> Err("TransportError", 0)

SenderSendNullFails(s, wb, notify) ==
    IF s = "Web" THEN WebBackendSend(wb, notify)
    ELSE Sent(Err("Err", 0), <<>>)
\* Sender::send, from its start to its return or its first suspension
SenderSend(s, wb, notify) ==
    IF s = "Web" THEN WebBackendSend(wb, notify)
    ELSE Sent(Ok(0), <<>>)

\* lines the serial port may deliver
OpenLine == Encode(FixChecksum([RefFrame EXCEPT ![17] = 1, ![18] = 1]))
BadChecksumLine == Encode([RefFrame EXCEPT ![FrameLen] = 255])
LowercaseLine == [RefLine EXCEPT ![Len(RefLine) - 1] = 97]
ShortLine == SubSeq(RefLine, 1, Len(RefLine) - 1)
SerialLines ==
    {RefLine, OpenLine, BadChecksumLine, LowercaseLine, ShortLine, <<>>}

\* what one call of the serial.lines() iterator yielded
ReadOk(l) == [kind |-> "Ok", line |-> l]
ReadFailed == [kind |-> "Err", line |-> <<>>]
ReadEnd == [kind |-> "End", line |-> <<>>]

DecodeIdle ==
    /\ input = <<>>
    /\ decoded = NotYet
    /\ verdict = NotYet
    /\ step = "idle"
    /\ volts = <<>>

\* after Cli::parse, Sender::new and the serial port opened
Init ==
    /\ DecodeIdle
    /\ backend \in Backends
    /\ sender = SenderNew(backend)
    /\ webBackend = SenderNewBackend(backend)
    /\ sends = <<>>
    /\ outbound = <<>>
    /\ backendUp \in BOOLEAN
    /\ pc = "awaiting_line"
    /\ line = <<>>
    /\ status = NoBuf
    /\ reads = <<>>
    /\ tasks = <<>>
    /\ stderr = <<>>

AfterReadErrPanics == "exited"
\* `let Ok(line) = line else { continue; }`: where a failed read leaves main
AfterReadErr == "awaiting_line"

AfterValidateFallsThrough(v) == "dispatching"
\* `if let Err(v) = status.validate() { ...; continue; }`
AfterValidate(v) == IF IsOk(v) THEN "dispatching" ELSE "awaiting_line"

AfterSpawnAwaitsTask == "awaiting_delivery"
\* tokio::spawn returns at once (its JoinHandle is dropped); the loop goes on
AfterSpawn == "awaiting_line"

\* the iterator yields Some(Ok(line))
ReadLine(l) ==
    /\ pc = "awaiting_line"
    /\ Len(reads) < MaxReads
    /\ reads' = Append(reads, ReadOk(l))
    /\ line' = l
    /\ pc' = "decoding"
    /\ UNCHANGED <<backend, sender, backendUp, status, tasks, stderr>>
    /\ UNCHANGED decodeVars
    /\ UNCHANGED sendVars

\* the iterator yields Some(Err(_)): timeout, I/O error or invalid UTF-8
ReadError ==
    /\ pc = "awaiting_line"
    /\ Len(reads) < MaxReads
    /\ reads' = Append(reads, ReadFailed)
    /\ pc' = AfterReadErr
    /\ UNCHANGED <<backend, sender, backendUp, line, status, tasks, stderr>>
    /\ UNCHANGED decodeVars
    /\ UNCHANGED sendVars

\* the iterator yields None: the for loop ends and main returns
StreamEnd ==
    /\ pc = "awaiting_line"
    /\ reads' = Append(reads, ReadEnd)
    /\ pc' = "returned"
    /\ UNCHANGED <<backend, sender, backendUp, line, status, tasks, stderr>>
    /\ UNCHANGED decodeVars
    /\ UNCHANGED sendVars

\* `match StatusNotify::decode_str(&line)`
Decode ==
    /\ pc = "decoding"
    /\ LET r == decode_str(line)
       IN IF IsOk(r)
          THEN /\ status' = r.buf
               /\ pc' = "validating"
               /\ UNCHANGED stderr
          ELSE /\ stderr' = stderr \o <<[what |-> r.tag, val |-> r.val],
                                        [what |-> "Buffer", val |-> Len(line)]>>
               /\ pc' = "awaiting_line"
               /\ UNCHANGED status
    /\ UNCHANGED <<backend, sender, backendUp, line, reads, tasks>>
    /\ UNCHANGED decodeVars
    /\ UNCHANGED sendVars

\* `if let Err(v) = status.validate()`, then println!(status.format())
Validate ==
    /\ pc = "validating"
    /\ LET v == validate(status)
       IN /\ pc' = AfterValidate(v)
          /\ stderr' = IF IsOk(v) THEN stderr
                       ELSE Append(stderr, [what |-> v.tag, val |-> v.val])
    /\ UNCHANGED <<backend, sender, backendUp, line, status, reads, tasks>>
    /\ UNCHANGED decodeVars
    /\ UNCHANGED sendVars

\* `tokio::spawn(async move { sender.send(&status).await.unwrap() })`
Dispatch ==
    /\ pc = "dispatching"
    /\ tasks' = Append(tasks, [frame |-> status, read |-> Len(reads),
                               state |-> "spawned", posts |-> 0])
    /\ pc' = AfterSpawn
    /\ UNCHANGED <<backend, sender, backendUp, line, status, reads, stderr>>
    /\ UNCHANGED decodeVars
    /\ UNCHANGED sendVars

\* main has returned: block_on returns, the runtime is dropped and every
\* task still queued is dropped unpolled; the process exits
RuntimeShutdown ==
    /\ pc = "returned"
    /\ tasks' = [i \in DOMAIN tasks |->
                    IF tasks[i].state = "spawned"
                    THEN [tasks[i] EXCEPT !.state = "dropped"]
                    ELSE tasks[i]]
    /\ pc' = "exited"
    /\ UNCHANGED <<backend, sender, backendUp, line, status, reads, stderr>>
    /\ UNCHANGED decodeVars
    /\ UNCHANGED sendVars

Progress == Decode \/ Validate \/ Dispatch \/ RuntimeShutdown

Next ==
    \/ \E l \in SerialLines : ReadLine(l)
    \/ ReadError
    \/ StreamEnd
    \/ Decode
    \/ Validate
    \/ Dispatch
    \/ RuntimeShutdown

Spec == Init /\ [][Next]_vars

\* main is running code between two reads and goes on to the next read or
\* to its return; whether the serial port ever delivers anything is up to
\* the environment
FairSpec == Spec /\ WF_vars(Progress)

(***************************************************************************)
(* The sink driver: Sender::new on a Backend, then Sender::send called on  *)
(* frames, as tasks of one runtime: a call runs until it returns or        *)
(* suspends at `.send().await`, other calls run while its request is in    *)
(* flight, and it resumes when the endpoint has answered.  (main never     *)
(* gets this far: see above.)                                              *)
(***************************************************************************)
\* the frames handed to send: the reference frame, and one with DI1 set and
\* changed
SendFrames == {RefFrame, FixChecksum([RefFrame EXCEPT ![17] = 1, ![18] = 1])}

SendInit ==
    /\ DecodeIdle
    /\ backend \in Backends
    /\ sender = SenderNew(backend)
    /\ webBackend = SenderNewBackend(backend)
    /\ sends = <<>>
    /\ outbound = <<>>
    /\ backendUp \in BOOLEAN
    /\ pc = "idle"
    /\ line = <<>>
    /\ status = NoBuf
    /\ reads = <<>>
    /\ tasks = <<>>
    /\ stderr = <<>>

\* the first poll of `sender.send(&notify)`: it returns, panics, or issues
\* its request and suspends
CallSend(notify) ==
    /\ pc = "idle"
    /\ Len(sends) < MaxSends
    /\ LET r == SenderSend(sender, webBackend, notify)
       IN /\ sends' = Append(sends, [notify |-> notify, result |-> r.result,
                                     requests |-> Len(r.requests)])
          /\ outbound' = outbound \o r.requests
    /\ UNCHANGED webBackend
    /\ UNCHANGED daemonVars
    /\ UNCHANGED decodeVars

\* the endpoint has answered the request of call i (or the request has
\* failed): the call resumes and returns its Result
SendResumes(i, resp) ==
    /\ pc = "idle"
    /\ i \in DOMAIN sends
    /\ sends[i].result = Pending
    /\ sends' = [sends EXCEPT ![i].result = WebBackendSendResumed(resp)]
    /\ UNCHANGED <<webBackend, outbound>>
    /\ UNCHANGED daemonVars
    /\ UNCHANGED decodeVars

SendNext ==
    \/ \E notify \in SendFrames : CallSend(notify)
    \/ \E i \in 1..MaxSends, resp \in Responses(backendUp) : SendResumes(i, resp)

SendSpec == SendInit /\ [][SendNext]_vars

(***************************************************************************)
(* Properties of the decoder and the validator (checked under DecodeSpec)  *)
(***************************************************************************)
HexUpper == (48..57) \cup (65..70)
HexVal(c) == IF c <= 57 THEN c - 48 ELSE c - 55

\* position p (1-based) of the line holds a byte the wire format forbids
Offending(l, p) == IF p = 1 THEN l[p] # 58 ELSE l[p] \notin HexUpper
WellFormed(l) == \A p \in 1..Len(l) : ~Offending(l, p)
Leftmost(l) ==
    CHOOSE p \in 1..Len(l) :
        Offending(l, p) /\ \A q \in 1..(p - 1) : ~Offending(l, q)

Decoded == step \in {"decoded", "validated"}

\* C1 as stated: every input whose length is not 50 is refused with
\* InvalidLength(len)
C1_LengthNot50 ==
    (Decoded /\ Len(input) # 50)
        => decoded = Err("InvalidLength", Len(input))

\* C1 amended: every input whose length is not 49 (the empty input included)
\* is refused with InvalidLength(len) carrying the actual length, whatever
\* its bytes are, and an input of length 49 is never refused for its length
C1_LengthNot49 ==
    Decoded =>
        /\ Len(input) # 49 => decoded = Err("InvalidLength", Len(input))
        /\ Len(input) = 49 => decoded.tag # "InvalidLength"

\* C1 witness: a 50-byte input with a wrong sentinel and a byte that is no digit is
\* refused for its length
C1_Witness ==
    /\ step = "decoded"
    /\ Len(input) = 50
    /\ input[1] # 58
    /\ input[2] \notin HexUpper
    /\ decoded = Err("InvalidLength", 50)

\* C2 as stated: a 50-byte input that is not ':' and 48 uppercase digits is
\* refused with InvalidCharacter(leftmost offending byte)
C2_BadCharOf50 ==
    (Decoded /\ Len(input) = 50 /\ ~WellFormed(input))
        => decoded = Err("InvalidCharacter", input[Leftmost(input)])

\* C2 amended: a 49-byte input that is not ':' followed by 48 characters of
\* 0-9 / A-F is refused with InvalidCharacter(b), b the leftmost offending
\* byte in position order; lowercase a-f offend; no frame is produced
C2_BadCharOf49 ==
    (Decoded /\ Len(input) = 49 /\ ~WellFormed(input))
        => /\ decoded = Err("InvalidCharacter", input[Leftmost(input)])
           /\ decoded.buf = NoBuf
           /\ verdict = NotYet

\* C2 witness: two different offending bytes, the left one a lowercase digit standing in
\* a low-nibble position: the left one is reported
C2_Witness ==
    /\ step = "decoded"
    /\ Len(input) = 49
    /\ \E p \in 2..49 : \E q \in (p + 1)..49 :
          /\ p % 2 = 1
          /\ input[p] \in 97..102
          /\ Offending(input, q)
          /\ input[q] # input[p]
          /\ Leftmost(input) = p
          /\ decoded = Err("InvalidCharacter", input[p])

\* C3: ':' followed by 48 characters of 0-9 / A-F decodes, output byte i is
\* 16 * value(char 1+2i) + value(char 2+2i), and the hexadecimal text of the
\* decoded buffer is the input again
C3_DecodeValue ==
    (Decoded /\ Len(input) = 49 /\ WellFormed(input))
        => /\ IsOk(decoded)
           /\ Len(decoded.buf) = 24
           /\ \A i \in 0..23 :
                 decoded.buf[i + 1] =
                     16 * HexVal(input[1 + 2 * i + 1]) + HexVal(input[2 + 2 * i + 1])
           /\ Encode(decoded.buf) = input

\* C3 witness: a frame other than the reference frame whose command byte is 0x80: the
\* high nibble 8 came first
C3_Witness ==
    /\ step = "decoded"
    /\ IsOk(decoded)
    /\ input # RefLine
    /\ input[4] = 56
    /\ input[5] = 48
    /\ decoded.buf[2] = 128

\* the four checks in the order of the claim: <<error, failed, value>>
Checks(f) ==
    <<[err |-> "InvalidChecksum", failed |-> SeqSum(f) % 256 # 0,
       val |-> SeqSum(f) % 256],
      [err |-> "InvalidProtocolVersion", failed |-> f[4] # 1, val |-> f[4]],
      [err |-> "InvalidCommand", failed |-> f[2] # 129, val |-> f[2]],
      [err |-> "InvalidRelayCount", failed |-> f[13] > 3, val |-> f[13]]>>

\* C4: validate returns the failure of the first failing check in the order
\* checksum, protocol version, command, relay count, with that check's
\* value, and Ok exactly when all four pass
C4_FirstFailure ==
    step = "validated" =>
        LET c == Checks(decoded.buf)
            failing == {k \in 1..4 : c[k].failed}
        IN /\ (failing = {}) <=> IsOk(verdict)
           /\ failing # {} =>
                 \E k \in failing :
                    /\ \A j \in failing : k <= j
                    /\ verdict = Err(c[k].err, c[k].val)

\* C4 witness: wrong version and wrong command together give InvalidProtocolVersion
C4_Witness ==
    /\ step = "validated"
    /\ decoded.buf[4] # 1
    /\ decoded.buf[2] # 129
    /\ decoded.buf[13] > 3
    /\ verdict = Err("InvalidProtocolVersion", decoded.buf[4])

\* C5: validate_checksum succeeds iff the 24 bytes sum to 0 modulo 256, its
\* error carries that nonzero sum, and the reference frame ending in FF
\* gives 0x58
C5_Checksum ==
    (Decoded /\ IsOk(decoded)) =>
        LET r == validate_checksum(decoded.buf)
            sum == SeqSum(decoded.buf) % 256
        IN /\ IsOk(r) <=> sum = 0
           /\ ~IsOk(r) => (r.val = sum /\ r.val # 0)
           /\ step = "validated" =>
                 (verdict.tag = "InvalidChecksum" <=> sum # 0)
           /\ (step = "validated" /\ sum # 0) => verdict.val = sum
           /\ (step = "validated" /\ input = BadChecksumLine)
                 => verdict = Err("InvalidChecksum", 88)

\* C5 witness: the reference line with its last byte FF went through validate
C5_Witness ==
    /\ step = "validated"
    /\ input = BadChecksumLine
    /\ decoded.buf[24] = 255
    /\ verdict = Err("InvalidChecksum", 88)

(***************************************************************************)
(* Properties of the ingestion loop (checked under Spec and FairSpec)      *)
(***************************************************************************)
Last(s) == s[Len(s)]

\* what decode_str and validate make of each line the port may deliver
Decoding == [l \in SerialLines |-> decode_str(l)]
AcceptedLines ==
    {l \in SerialLines : IsOk(Decoding[l]) /\ IsOk(validate(Decoding[l].buf))}

\* the read yielded a line that decodes and passes validate
Accepts(r) == r.kind = "Ok" /\ r.line \in AcceptedLines

MainRunning == pc \notin {"returned", "exited"}

\* C6: a frame is handed to the sink only if its line was read, decoded and
\* validated successfully; a line failing any of these causes no dispatch;
\* each line causes at most one dispatch
C6_OnlyAcceptedDispatched ==
    /\ \A i \in DOMAIN tasks :
          /\ tasks[i].read \in DOMAIN reads
          /\ Accepts(reads[tasks[i].read])
          /\ tasks[i].frame = Decoding[reads[tasks[i].read].line].buf
    /\ \A k \in DOMAIN reads :
          ~Accepts(reads[k]) => \A i \in DOMAIN tasks : tasks[i].read # k
    /\ \A i, j \in DOMAIN tasks : i # j => tasks[i].read # tasks[j].read

\* C6 witness: a failed read, a line with a bad checksum and a good line were read, and
\* only the good line was dispatched
C6_Witness ==
    /\ reads = <<ReadFailed, ReadOk(BadChecksumLine), ReadOk(RefLine)>>
    /\ pc = "awaiting_line"
    /\ Len(tasks) = 1
    /\ tasks[1].read = 3
    /\ tasks[1].frame = RefFrame

\* C7 as stated: with the Network Sink, every accepted frame eventually
\* leads to exactly one POST attempt, also while the loop never finishes
\* (a delivery abandoned because the process has exited is not held
\* against the claim)
C7_EveryAcceptedFramePosted ==
    \A i \in 1..MaxReads :
        (sender = "Web" /\ i \in DOMAIN tasks)
            ~> (pc = "exited" \/ (i \in DOMAIN tasks /\ tasks[i].posts = 1))

\* C8: after a frame is handed to the sink the loop goes on to read and
\* process the next line; main never waits in a state that depends on a
\* delivery, however many are pending
C8_ReaderNeverWaits ==
    MainRunning =>
        /\ pc \in {"awaiting_line", "decoding", "validating", "dispatching"}
        /\ pc = "decoding" => ENABLED Decode
        /\ pc = "validating" => ENABLED Validate
        /\ pc = "dispatching" => ENABLED Dispatch
        /\ (pc = "awaiting_line" /\ Len(reads) < MaxReads)
              => /\ ENABLED ReadLine(RefLine)
                 /\ ENABLED ReadError

\* C8 witness: with two deliveries pending, a third line has been read and decoded
C8_Witness ==
    /\ Len(tasks) = 2
    /\ \A i \in DOMAIN tasks : tasks[i].state = "spawned" /\ tasks[i].posts = 0
    /\ Len(reads) = 3
    /\ Last(reads).kind = "Ok"
    /\ pc = "validating"

\* C9 as stated: a delivery that fails ends, inside its dispatch unit, as a
\* logged result, and neither the loop nor the process is ended by it (a
\* delivery abandoned because the stream ended and the process has exited
\* is not held against the claim)
C9_FailureLoggedByUnit ==
    /\ \A i \in 1..MaxReads :
          (sender = "Web" /\ ~backendUp /\ i \in DOMAIN tasks)
              ~> \/ pc = "exited"
                 \/ (i \in DOMAIN tasks /\ tasks[i].state = "failure_logged")
    /\ [](pc \in {"returned", "exited"} => Last(reads).kind = "End")

\* C10: a failed read never ends the loop or the process: main is back at
\* awaiting the next line, only the end of the stream makes main return, and
\* a valid line read after read failures is decoded, validated, dispatched
C10_ReadFailureContinues ==
    /\ (reads # <<>> /\ Last(reads).kind = "Err") => pc = "awaiting_line"
    /\ ~MainRunning => (reads # <<>> /\ Last(reads).kind = "End")
    /\ (pc = "awaiting_line" /\ Len(reads) < MaxReads)
          => ENABLED ReadLine(OpenLine)
    /\ pc \in {"awaiting_line", "returned", "exited"} =>
          \A k \in DOMAIN reads :
             (Accepts(reads[k]) /\ \E j \in 1..(k - 1) : reads[j].kind = "Err")
                => \E i \in DOMAIN tasks :
                      /\ tasks[i].read = k
                      /\ tasks[i].frame = Decoding[reads[k].line].buf

\* C10 witness: two failed reads, then a valid line, which was dispatched
C10_Witness ==
    /\ reads = <<ReadFailed, ReadFailed, ReadOk(OpenLine)>>
    /\ pc = "awaiting_line"
    /\ Len(tasks) = 1
    /\ tasks[1].read = 3
    /\ di_status(tasks[1].frame) = 1

(***************************************************************************)
(* The reference line with its command byte set to 0x80 (DecodeSpec)       *)
(***************************************************************************)
\* ":7880150175810000380026C9000C04220000FFFFFFFFFFA7": only the command
\* byte differs from the reference line
CommandOnlyLine == [RefLine EXCEPT ![5] = 48]
\* ":7880150175810000380026C9000C04220000FFFFFFFFFFA8": the checksum byte
\* follows the command byte
CommandFixedLine == [RefLine EXCEPT ![5] = 48, ![49] = 56]

\* C12 as stated: the reference line with its command byte set to 0x80,
\* decoded and validated, yields InvalidCommand(0x80)
C12_CommandOnly ==
    (step = "validated" /\ input = CommandOnlyLine)
        => verdict = Err("InvalidCommand", 128)

\* C12 amended: the reference line with its command byte set to 0x80 and
\* its checksum byte recomputed (A8) yields InvalidCommand(0x80); with the
\* checksum byte left at A7 it yields InvalidChecksum(0xFF)
C12_CommandAndChecksum ==
    step = "validated" =>
        /\ input = CommandFixedLine => verdict = Err("InvalidCommand", 128)
        /\ input = CommandOnlyLine => verdict = Err("InvalidChecksum", 255)

\* C12 witness: the line with command 0x80 and checksum A8 was decoded and
\* validated
C12_Witness ==
    /\ step = "validated"
    /\ input = CommandFixedLine
    /\ command(decoded.buf) = 128
    /\ checksum(decoded.buf) = 168
    /\ verdict = Err("InvalidCommand", 128)

(***************************************************************************)
(* Analog channel voltages (DecodeSpec)                                    *)
(***************************************************************************)
\* C13: for every frame and channel k in 1..4, adK_voltage_millis is
\* (raw_k * 4 + fix_k) * 4, raw_k the byte at offset 22 - k, fix_k bits
\* 2(k-1)..2(k-1)+1 of the byte at offset 22; it never exceeds 4092
C13_AnalogVoltage ==
    volts # <<>> =>
        \A k \in 1..4 :
            LET raw == decoded.buf[(22 - k) + 1]
                fix == (decoded.buf[22 + 1] \div (4 ^ (k - 1))) % 4
            IN /\ volts[k] = (raw * 4 + fix) * 4
               /\ volts[k] <= 4092

\* C13 witness: channel 1 raw 0xFF with correction 00 and channel 4 raw 0
\* with correction 11 (correction byte E4), and a frame reaching 4092
C13_Witness ==
    /\ volts # <<>>
    /\ decoded.buf[19] = 0
    /\ decoded.buf[22] = 255
    /\ decoded.buf[23] = 228
    /\ volts[1] = 4080
    /\ volts[2] = (decoded.buf[21] * 4 + 1) * 4
    /\ volts[4] = 12

(***************************************************************************)
(* Properties of the sink (SendSpec)                                       *)
(***************************************************************************)
\* C11: the sink variant is the one Sender::new chose and never changes; it
\* is Sender::Nothing exactly when no destination URL is configured, and
\* every send on Sender::Nothing returns Ok and issues no request, for every
\* frame and after any number of sends
C11_NullSink ==
    /\ [](sender = SenderNew(backend))
    /\ []((sender = "Nothing") <=> ~backend.url)
    /\ [](sender = "Nothing" =>
            /\ outbound = <<>>
            /\ \A i \in DOMAIN sends :
                   sends[i].result = Ok(0) /\ sends[i].requests = 0)
    /\ [][sender' = sender /\ backend' = backend]_vars

\* C11 witness: a Null Sink that has returned Ok MaxSends times, on both
\* frames, without a request, though a username is configured
C11_Witness ==
    /\ sender = "Nothing"
    /\ backend.username
    /\ Len(sends) = MaxSends
    /\ {sends[i].notify : i \in DOMAIN sends} = SendFrames
    /\ \A i \in DOMAIN sends : sends[i].result = Ok(0)
    /\ outbound = <<>>

\* C14: a Network Sink (Sender::Web) holds a backend configuration with a
\* destination URL, so no send ends in the panic of the URL unwrap; nor in
\* the panic of the username unwrap, and credentials are attached only when
\* a username is configured
C14_UnwrapsNeverFail ==
    /\ sender = "Web" => webBackend.url
    /\ \A i \in DOMAIN sends :
           sends[i].result.tag \notin {"UrlUnwrapNone", "UsernameUnwrapNone"}
    /\ \A i \in DOMAIN outbound :
           outbound[i].auth.basic <=> (sender = "Web" /\ webBackend.username)

\* C14 witness: a Network Sink with a username and no password has sent
\* the reference frame in a request with basic auth and got Ok, after a
\* second send had issued its request, which is still in flight
C14_Witness ==
    /\ sender = "Web"
    /\ webBackend.username /\ ~webBackend.password
    /\ Len(sends) = 2
    /\ sends[1].result = Ok(0)
    /\ sends[2].result = Pending
    /\ Len(outbound) = 2
    /\ SubSeq(outbound, 1, 1) = <<[auth |-> [basic |-> TRUE, password |-> FALSE],
                     form |-> [wireless |-> 117, battery |-> 3076,
                               doorsensor |-> 0, status |-> FALSE,
                               changed |-> FALSE]]>>

====
